---- MODULE Spec2Model ----
(***************************************************************************)
(* A model of the merge pipeline of .github/workflows/ci_html_build.yml:   *)
(* the pull_request_target trigger and its paths filter, prepare_matrix    *)
(* (git diff | jq), the execute-notebooks matrix jobs (install, execute,   *)
(* commit, transplant onto gh-storage, force-push retry loop) and          *)
(* generate_html (build from gh-storage, publish).                         *)
(***************************************************************************)
EXTENDS Integers, Sequences, FiniteSets, TLC

(***************************************************************************)
(* Bounds of the model.                                                    *)
(***************************************************************************)
NumNotebooks == 2
MaxVersion == 2

(***************************************************************************)
(* Paths and trees.  A path is <<stem, extension>>; a tree (the files of   *)
(* one commit) maps each path to the version of its content, 0 for a path  *)
(* the commit does not hold.                                               *)
(***************************************************************************)
Notebooks == (1..NumNotebooks) \X {"ipynb"}
Paths == Notebooks \cup {<<1, "txt">>}
Absent == 0
Versions == 1..MaxVersion
Trees == [Paths -> {Absent} \cup Versions]

\* The paths in the order git lists them (sorted by name).
RECURSIVE SortedPaths(_, _)
SortedPaths(n, ext) ==
    IF n = 0 THEN <<>> ELSE Append(SortedPaths(n - 1, ext), <<n, ext>>)
PathOrder == SortedPaths(NumNotebooks, "ipynb") \o <<<<1, "txt">>>>

\* '**.ipynb' of the trigger and '*.ipynb' of git diff: the extension decides.
MatchesIpynb(p) == p[2] = "ipynb"

VARIABLES
    merged,      \* github.event.pull_request.merged
    mbTree,      \* the tree of the merge base of base.sha and head.sha
    baseTree,    \* the tree of github.event.pull_request.base.sha
    headTree,    \* the tree of github.event.pull_request.head.sha
    run,         \* "event" | "filtered" | "running": the workflow run
    pm,          \* prepare_matrix: "waiting" | "skipped" | "success" | "failure"
    matrix,      \* steps.set-matrix.outputs.matrix: a sequence of entries
    en,          \* execute-notebooks: "waiting" | "skipped" | "expanded"
    job,         \* the matrix jobs of execute-notebooks, one per matrix entry
    storage,     \* the tree at the tip of origin/gh-storage
    gh,          \* generate_html: "waiting" | "skipped" | "build" | "publish" | "success" | "failure"
    built,       \* the notebooks ./_build/html was built from
    site,        \* the notebooks the published site was built from
    dirFiles,    \* Install dependencies: the files in the notebook's directory
    ipc,         \* Install dependencies: the block the script is at
    applied,     \* Install dependencies: the items run or installed, in order
    a11y,        \* accessibility check: "idle" | "triggered" | "called" | "success" | "failure"
    evt,         \* accessibility check: the event that started it
    supplied,    \* workflow_dispatch: what the dispatcher entered for each input
    passed,      \* the with: values handed to the called workflow
    cell         \* a notebook code cell being run: its names, its files, where it is

eventVars == <<merged, mbTree, baseTree, headTree>>
diffVars == <<merged, mbTree, baseTree, headTree, run, pm, matrix>>
execVars == <<en, job, storage>>
htmlVars == <<gh, built, site>>
installVars == <<dirFiles, ipc, applied>>
a11yVars == <<a11y, evt, supplied, passed>>
pipelineVars == <<merged, mbTree, baseTree, headTree, run, pm, matrix, en, job, storage,
                  gh, built, site, dirFiles, ipc, applied>>
vars == <<merged, mbTree, baseTree, headTree, run, pm, matrix, en, job, storage,
          gh, built, site, dirFiles, ipc, applied, a11y, evt, supplied, passed, cell>>

\* No notebook cell is being run.
NoCell == [pc |-> "none"]

(***************************************************************************)
(* git diff --name-only A...B '*.ipynb'                                    *)
(***************************************************************************)
\* The paths whose content differs between two trees.
Differ(a, b) == {p \in Paths : a[p] # b[p]}
Added(a, b) == {p \in Paths : MatchesIpynb(p) /\ a[p] = Absent /\ b[p] # Absent}
Deleted(a, b) == {p \in Paths : MatchesIpynb(p) /\ a[p] # Absent /\ b[p] = Absent}

Min(x, y) == IF x < y THEN x ELSE y

\* git's rename detection (diff.renames is on by default) pairs deleted paths
\* with added paths: a deleted path whose content is identical to an added
\* one is always paired, one of different content may be (similarity); the
\* deleted paths of the pairs are the candidates for srcs.
RenameSources(a, b) ==
    {srcs \in SUBSET Deleted(a, b) :
        /\ Cardinality(srcs) <= Cardinality(Added(a, b))
        /\ \A v \in Versions :
              Cardinality({p \in srcs : a[p] = v}) >=
                  Min(Cardinality({p \in Deleted(a, b) : a[p] = v}),
                      Cardinality({p \in Added(a, b) : b[p] = v}))}

\* The names --name-only prints for the diff of a against b limited to the
\* pathspec: every differing path but the old name of a rename.
DiffNames(a, b, srcs) ==
    {p \in Differ(a, b) : MatchesIpynb(p)} \ srcs

\* base...head is the diff of the merge base against head.
ThreeDotDiff(srcs) == DiffNames(mbTree, headTree, srcs)

(***************************************************************************)
(* Text: a sequence of tokens, a token a path name or the newline.         *)
(***************************************************************************)
NL == <<0, "\n">>

\* The lines of a set of names in git's order.
NamesSeq(S) == SelectSeq(PathOrder, LAMBDA p : p \in S)

\* $(...): the names one per line, the trailing newline stripped.
RECURSIVE JoinLines(_)
JoinLines(names) ==
    IF names = <<>> THEN <<>>
    ELSE IF Len(names) = 1 THEN <<names[1]>>
    ELSE <<names[1], NL>> \o JoinLines(Tail(names))

\* echo "$files": the text and a newline.
Echo(text) == Append(text, NL)

\* jq split("\n"): the segments between the newlines, empty ones kept.
RECURSIVE Split(_)
Split(text) ==
    IF text = <<>> THEN <<<<>>>>
    ELSE IF Head(text) = NL THEN <<<<>>>> \o Split(Tail(text))
    ELSE LET rest == Split(Tail(text))
         IN  <<<<Head(text)>> \o Head(rest)>> \o Tail(rest)

\* jq .[:-1]: all but the last element.
DropLast(s) == IF s = <<>> THEN <<>> ELSE SubSeq(s, 1, Len(s) - 1)

\* The names as the words of an unquoted $files: joined by single spaces.
SP == <<0, " ">>
RECURSIVE JoinWords(_)
JoinWords(names) ==
    IF names = <<>> THEN <<>>
    ELSE IF Len(names) = 1 THEN <<names[1]>>
    ELSE <<names[1], SP>> \o JoinWords(Tail(names))

\* files_json as the step would compute it with echo $files unquoted.
FilesJsonUnquoted(names) == DropLast(Split(Echo(JoinWords(NamesSeq(names)))))

\* files_json of the set-matrix step: a list of strings, each a segment.
FilesJson(names) == DropLast(Split(Echo(JoinLines(NamesSeq(names)))))

\* The empty string as a matrix entry.
EmptyEntry == <<>>
\* The entry that names path p.
EntryOf(p) == <<p>>
MatrixSet == {matrix[i] : i \in 1..Len(matrix)}

(***************************************************************************)
(* The trigger: pull_request_target, types [closed], paths '**.ipynb'.     *)
(***************************************************************************)
\* A trigger without the paths filter.
PathsFilterNone == TRUE

\* The paths filter looks at the files the pull request changed.
PathsFilter == \E p \in Differ(mbTree, headTree) : MatchesIpynb(p)

Trigger ==
    /\ run = "event"
    /\ PathsFilter
    /\ run' = "running"
    /\ UNCHANGED <<eventVars, pm, matrix, execVars, htmlVars, installVars, a11yVars, cell>>

NotTriggered ==
    /\ run = "event"
    /\ ~PathsFilter
    /\ run' = "filtered"
    /\ UNCHANGED <<eventVars, pm, matrix, execVars, htmlVars, installVars, a11yVars, cell>>

(***************************************************************************)
(* prepare_matrix                                                          *)
(***************************************************************************)
\* prepare_matrix without its if.
PrepareMatrixIfNone == TRUE

PrepareMatrixIf == merged = TRUE

SkipPrepareMatrix ==
    /\ run = "running" /\ pm = "waiting"
    /\ ~PrepareMatrixIf
    /\ pm' = "skipped"
    /\ UNCHANGED <<eventVars, run, matrix, execVars, htmlVars, installVars, a11yVars, cell>>

\* The set-matrix step: git diff, jq, set-output.
SetMatrix ==
    /\ run = "running" /\ pm = "waiting"
    /\ PrepareMatrixIf
    /\ \E srcs \in RenameSources(mbTree, headTree) :
          matrix' = FilesJson(ThreeDotDiff(srcs))
    /\ pm' = "success"
    /\ UNCHANGED <<eventVars, run, execVars, htmlVars, installVars, a11yVars, cell>>

\* git diff exits non-zero (a sha that cannot be resolved): under bash -e the
\* step and the job fail and no output is set.
SetMatrixFails ==
    /\ run = "running" /\ pm = "waiting"
    /\ PrepareMatrixIf
    /\ pm' = "failure"
    /\ UNCHANGED <<eventVars, run, matrix, execVars, htmlVars, installVars, a11yVars, cell>>

(***************************************************************************)
(* Notebook files.  ver is the version of the source, outputs whether the  *)
(* code cells carry the outputs of an execution, marker whether the        *)
(* failure-indicator cell is in the file.                                  *)
(***************************************************************************)
Source(v) == [ver |-> v, outputs |-> FALSE, marker |-> FALSE]
Executed(v) == [ver |-> v, outputs |-> TRUE, marker |-> FALSE]

\* jupyter nbconvert --to notebook --execute --inplace, exit status 0: the
\* file is rewritten with the outputs of the execution.
NbconvertExecute(nb) == [nb EXCEPT !.outputs = TRUE]

\* .github/scripts/insert_failure_message.py: a visible failure-indicator
\* cell is inserted into the notebook.
InsertFailureMessage(nb) == [nb EXCEPT !.marker = TRUE]

(***************************************************************************)
(* execute-notebooks                                                       *)
(***************************************************************************)
MAX_RETRIES == 5

Jobs == 1..Len(job)

\* The file matrix.notebooks names (the empty string names none).
PathOf(k) == job[k].notebooks[1]
NamesFile(k) == job[k].notebooks # EmptyEntry

\* The notebook the checkout puts at matrix.notebooks.
CheckedOut(k) ==
    IF NamesFile(k) THEN Source(headTree[PathOf(k)]) ELSE Source(Absent)

\* A matrix job as the strategy creates it.
NewJob(entry) ==
    [notebooks |-> entry,       \* matrix.notebooks
     pc        |-> "queued",    \* the step the job is at, or its conclusion
     failedAt  |-> "none",      \* the step that failed the job
     file      |-> Source(Absent), \* the notebook in the work tree
     raised    |-> FALSE,       \* nbconvert exited non-zero
     scriptRun |-> FALSE,       \* insert_failure_message.py was run
     executions|-> 0,           \* runs of nbconvert --execute
     committed |-> Source(Absent), \* the notebook of the commit on the current branch
     tip       |-> storage,     \* the gh-storage tree the job fetched
     local     |-> storage,     \* the tree of the job's local gh-storage
     i         |-> 0,           \* the loop variable of the push loop
     attempts  |-> 0,           \* git push commands run
     sleeps    |-> 0,           \* sleep commands run
     pushed    |-> FALSE]       \* a git push succeeded

ExecuteNotebooksIf == merged = TRUE

\* needs: prepare_matrix.  The matrix is expanded once prepare_matrix has
\* succeeded and set its output.
ExpandMatrix ==
    /\ run = "running" /\ en = "waiting"
    /\ pm = "success"
    /\ ExecuteNotebooksIf
    /\ en' = "expanded"
    /\ job' = [k \in 1..Len(matrix) |-> NewJob(matrix[k])]
    /\ UNCHANGED <<diffVars, storage, htmlVars, installVars, a11yVars, cell>>

\* A needed job that was skipped or failed, or a false if: the job is skipped.
SkipExecuteNotebooks ==
    /\ run = "running" /\ en = "waiting"
    /\ pm \in {"skipped", "failure"} \/ (pm = "success" /\ ~ExecuteNotebooksIf)
    /\ en' = "skipped"
    /\ UNCHANGED <<diffVars, job, storage, htmlVars, installVars, a11yVars, cell>>

\* A failing step under fail-fast: true: the jobs of the matrix that have
\* not concluded are cancelled.
FailStepFailFast(k, step) ==
    job' = [j \in 1..Len(job) |->
              IF j = k THEN [job[j] EXCEPT !.pc = "failure", !.failedAt = step]
              ELSE IF job[j].pc \in {"success", "failure"} THEN job[j]
              ELSE [job[j] EXCEPT !.pc = "failure", !.failedAt = "cancelled"]]

\* The step of job k ends in failure: the later steps are skipped and the
\* job concludes failure.  With fail-fast: false no other job is touched.
FailStep(k, step) ==
    job' = [job EXCEPT ![k].pc = "failure", ![k].failedAt = step]

\* actions/checkout and the set-up steps: the work tree holds the notebook
\* as merged.
StartJob(k) ==
    /\ job[k].pc = "queued"
    /\ job' = [job EXCEPT ![k].pc = "install", ![k].file = CheckedOut(k)]
    /\ UNCHANGED <<diffVars, en, storage, htmlVars, installVars, a11yVars, cell>>

\* Install dependencies, as one step (InstallNext below runs it line by line).
Install(k) ==
    /\ job[k].pc = "install"
    /\ job' = [job EXCEPT ![k].pc = "execute"]
    /\ UNCHANGED <<diffVars, en, storage, htmlVars, installVars, a11yVars, cell>>

InstallFails(k) ==
    /\ job[k].pc = "install"
    /\ FailStep(k, "install")
    /\ UNCHANGED <<diffVars, en, storage, htmlVars, installVars, a11yVars, cell>>

\* Execute notebooks with "jupyter nbconvert ...; python ...insert_failure_
\* message.py ...": the script runs whatever the status of nbconvert.
ExecuteOkRunsScript(k) ==
    /\ job[k].pc = "execute"
    /\ job' = [job EXCEPT ![k].pc = "commit",
                          ![k].executions = @ + 1,
                          ![k].scriptRun = TRUE,
                          ![k].file = InsertFailureMessage(NbconvertExecute(@))]
    /\ UNCHANGED <<diffVars, en, storage, htmlVars, installVars, a11yVars, cell>>

\* Execute notebooks: nbconvert raises, and the step runs it again until it
\* exits 0 or the script has marked the file.
ExecuteRaisesRetries(k) ==
    /\ job[k].pc = "execute"
    /\ job' = [job EXCEPT ![k].pc = IF job[k].executions >= 1 THEN "commit" ELSE "execute",
                          ![k].executions = @ + 1,
                          ![k].raised = TRUE,
                          ![k].scriptRun = job[k].executions >= 1,
                          ![k].file = IF job[k].executions >= 1
                                      THEN InsertFailureMessage(@) ELSE @]
    /\ UNCHANGED <<diffVars, en, storage, htmlVars, installVars, a11yVars, cell>>

\* Execute notebooks: nbconvert exits 0.
ExecuteOk(k) ==
    /\ job[k].pc = "execute"
    /\ job' = [job EXCEPT ![k].pc = "commit",
                          ![k].executions = @ + 1,
                          ![k].file = NbconvertExecute(@)]
    /\ UNCHANGED <<diffVars, en, storage, htmlVars, installVars, a11yVars, cell>>

\* Execute notebooks without the "if !" guard: the non-zero status of
\* nbconvert ends the step under bash -e.
ExecuteRaisesFailsStep(k) ==
    /\ job[k].pc = "execute"
    /\ job' = [job EXCEPT ![k].pc = "failure",
                          ![k].failedAt = "execute",
                          ![k].executions = @ + 1,
                          ![k].raised = TRUE]
    /\ UNCHANGED <<diffVars, en, storage, htmlVars, installVars, a11yVars, cell>>

\* Execute notebooks: nbconvert exits non-zero and leaves the file as it
\* was; the then-branch of "if ! jupyter nbconvert ..." runs the script, and
\* the step ends with the script's status.
ExecuteRaises(k) ==
    /\ job[k].pc = "execute"
    /\ job' = [job EXCEPT ![k].pc = "commit",
                          ![k].executions = @ + 1,
                          ![k].raised = TRUE,
                          ![k].scriptRun = TRUE,
                          ![k].file = InsertFailureMessage(@)]
    /\ UNCHANGED <<diffVars, en, storage, htmlVars, installVars, a11yVars, cell>>

\* Commit modified file on current branch: git add, git commit (git add
\* of the empty string is an error).
Commit(k) ==
    /\ job[k].pc = "commit"
    /\ NamesFile(k)
    /\ job' = [job EXCEPT ![k].pc = "transplant", ![k].committed = job[k].file]
    /\ UNCHANGED <<diffVars, en, storage, htmlVars, installVars, a11yVars, cell>>

\* git commit exits non-zero.
CommitFails(k) ==
    /\ job[k].pc = "commit"
    /\ FailStep(k, "commit")
    /\ UNCHANGED <<diffVars, en, storage, htmlVars, installVars, a11yVars, cell>>

\* The transplant with a merge of the work branch into gh-storage in place
\* of the checkout of the file: the notebook keeps cells of the stored one.
TransplantMerging(k) ==
    /\ job[k].pc = "transplant"
    /\ job' = [job EXCEPT ![k].pc = "commit_storage",
                          ![k].tip = storage,
                          ![k].local = [storage EXCEPT ![job[k].notebooks[1]] =
                              [ver     |-> job[k].committed.ver,
                               outputs |-> job[k].committed.outputs \/ @.outputs,
                               marker  |-> job[k].committed.marker \/ @.marker]]]
    /\ UNCHANGED <<diffVars, en, storage, htmlVars, installVars, a11yVars, cell>>

\* The transplant with "git checkout @{-1} -- ." in place of the one file:
\* every notebook of the work branch is put on gh-storage.
TransplantWholeTree(k) ==
    /\ job[k].pc = "transplant"
    /\ job' = [job EXCEPT ![k].pc = "commit_storage",
                          ![k].tip = storage,
                          ![k].local = [p \in Notebooks |->
                                           IF p = job[k].notebooks[1] THEN job[k].committed
                                           ELSE [ver |-> headTree[p], outputs |-> FALSE,
                                                 marker |-> FALSE]]]
    /\ UNCHANGED <<diffVars, en, storage, htmlVars, installVars, a11yVars, cell>>

\* Checkout only the file to the target branch: git fetch and git checkout -f
\* gh-storage give the tip of origin/gh-storage as it is now; git checkout
\* @{-1} <notebook> puts the committed notebook, and nothing else, on it.
Transplant(k) ==
    /\ job[k].pc = "transplant"
    /\ job' = [job EXCEPT ![k].pc = "commit_storage",
                          ![k].tip = storage,
                          ![k].local = [storage EXCEPT ![PathOf(k)] = job[k].committed]]
    /\ UNCHANGED <<diffVars, en, storage, htmlVars, installVars, a11yVars, cell>>

\* git pull cannot reconcile the current branch with its upstream.
TransplantFails(k) ==
    /\ job[k].pc = "transplant"
    /\ FailStep(k, "transplant")
    /\ UNCHANGED <<diffVars, en, storage, htmlVars, installVars, a11yVars, cell>>

\* The step with git commit --allow-empty: a commit is made, and pushed,
\* also when the notebook is the one gh-storage has.
CommitStorageAllowEmpty(k) ==
    /\ job[k].pc = "commit_storage"
    /\ job' = [job EXCEPT ![k].pc = "push", ![k].i = 1]
    /\ UNCHANGED <<diffVars, en, storage, htmlVars, installVars, a11yVars, cell>>

\* Commit and push modifications to target branch: git commit creates the
\* commit when the notebook differs from the one on gh-storage; the loop
\* starts with i = 1.
CommitStorage(k) ==
    /\ job[k].pc = "commit_storage"
    /\ job[k].local # job[k].tip
    /\ job' = [job EXCEPT ![k].pc = "push", ![k].i = 1]
    /\ UNCHANGED <<diffVars, en, storage, htmlVars, installVars, a11yVars, cell>>

\* Nothing to commit: git commit exits 1 and bash -e ends the step.
CommitStorageFails(k) ==
    /\ job[k].pc = "commit_storage"
    /\ job[k].local = job[k].tip
    /\ FailStep(k, "commit_storage")
    /\ UNCHANGED <<diffVars, en, storage, htmlVars, installVars, a11yVars, cell>>

\* A successful push without "&& break": the loop goes on to the next i.
PushOkNoBreak(k) ==
    /\ job[k].pc = "push"
    /\ storage' = job[k].local
    /\ job' = [job EXCEPT ![k].attempts = @ + 1,
                          ![k].pushed = TRUE,
                          ![k].i = IF job[k].i < MAX_RETRIES THEN @ + 1 ELSE @,
                          ![k].pc = IF job[k].i < MAX_RETRIES THEN "push" ELSE "success"]
    /\ UNCHANGED <<diffVars, en, htmlVars, installVars, a11yVars, cell>>

\* git push origin gh-storage --force succeeds: the remote branch is set to
\* the job's local commit whatever its tip is now; "&& break" leaves the
\* loop and the step ends with status 0.
PushOk(k) ==
    /\ job[k].pc = "push"
    /\ storage' = job[k].local
    /\ job' = [job EXCEPT ![k].pc = "success",
                          ![k].attempts = @ + 1,
                          ![k].pushed = TRUE]
    /\ UNCHANGED <<diffVars, en, htmlVars, installVars, a11yVars, cell>>

\* git push fails: the || branch echoes and sleeps.
PushFails(k) ==
    /\ job[k].pc = "push"
    /\ job' = [job EXCEPT ![k].pc = "sleep", ![k].attempts = @ + 1]
    /\ UNCHANGED <<diffVars, en, storage, htmlVars, installVars, a11yVars, cell>>

\* sleep $RETRY_DELAY, then the next value of i; after the last one the loop
\* is done, its status that of sleep: 0, and the step succeeds.
Sleep(k) ==
    /\ job[k].pc = "sleep"
    /\ job' = [job EXCEPT ![k].sleeps = @ + 1,
                          ![k].i = IF job[k].i < MAX_RETRIES THEN @ + 1 ELSE @,
                          ![k].pc = IF job[k].i < MAX_RETRIES THEN "push" ELSE "success"]
    /\ UNCHANGED <<diffVars, en, storage, htmlVars, installVars, a11yVars, cell>>

Concluded(k) == job[k].pc \in {"success", "failure"}

(***************************************************************************)
(* generate_html                                                           *)
(***************************************************************************)
GenerateHtmlIf == merged = TRUE

\* generate_html with needs: prepare_matrix in place of execute-notebooks.
StartGenerateHtmlNeedsMatrix ==
    /\ run = "running" /\ gh = "waiting"
    /\ pm = "success"
    /\ merged = TRUE
    /\ gh' = "build"
    /\ UNCHANGED <<diffVars, execVars, built, site, installVars, a11yVars, cell>>

\* generate_html with if: always() && merged == true: it starts once the
\* needed job has concluded, whatever its conclusion.
StartGenerateHtmlAlways ==
    /\ run = "running" /\ gh = "waiting"
    /\ \/ en = "skipped"
       \/ en = "expanded" /\ \A k \in 1..Len(job) : job[k].pc \in {"success", "failure"}
    /\ merged = TRUE
    /\ gh' = "build"
    /\ UNCHANGED <<diffVars, execVars, built, site, installVars, a11yVars, cell>>

\* generate_html with if: !failure() replaced by a test that some needed job
\* succeeded: it starts when every job has concluded and one of them succeeded.
StartGenerateHtmlAnySuccess ==
    /\ run = "running" /\ gh = "waiting"
    /\ en = "expanded"
    /\ \A k \in 1..Len(job) : job[k].pc \in {"success", "failure"}
    /\ \E k \in 1..Len(job) : job[k].pc = "success"
    /\ merged = TRUE
    /\ gh' = "build"
    /\ UNCHANGED <<diffVars, execVars, built, site, installVars, a11yVars, cell>>

\* needs: execute-notebooks, with the implicit success(): every matrix job
\* has concluded, and concluded success.
StartGenerateHtml ==
    /\ run = "running" /\ gh = "waiting"
    /\ en = "expanded"
    /\ \A k \in Jobs : Concluded(k)
    /\ \A k \in Jobs : job[k].pc = "success"
    /\ GenerateHtmlIf
    /\ gh' = "build"
    /\ UNCHANGED <<diffVars, execVars, built, site, installVars, a11yVars, cell>>

SkipGenerateHtml ==
    /\ run = "running" /\ gh = "waiting"
    /\ \/ en = "skipped"
       \/ /\ en = "expanded"
          /\ \A k \in Jobs : Concluded(k)
          /\ (\E k \in Jobs : job[k].pc = "failure") \/ ~GenerateHtmlIf
    /\ gh' = "skipped"
    /\ UNCHANGED <<diffVars, execVars, built, site, installVars, a11yVars, cell>>

\* _config.yml with execute_notebooks: force.
ExecuteNotebooksForce == "force"

\* _config.yml: execute: execute_notebooks: off.
ExecuteNotebooks == "off"

\* What jupyter-book build can put in ./_build/html from the notebooks t.
\* With execute_notebooks off the pages show the outputs stored in the
\* notebooks; otherwise every notebook is executed again by the build and
\* its page shows what that execution gave.
BuildOutputs(t) ==
    IF ExecuteNotebooks = "off" THEN {t}
    ELSE {[p \in Notebooks |-> [t[p] EXCEPT !.outputs = o[p]]] : o \in [Notebooks -> BOOLEAN]}

\* Build HTML: git fetch, git checkout origin/gh-storage -- notebooks/,
\* jupyter-book build .
BuildHtml ==
    /\ gh = "build"
    /\ built' \in BuildOutputs(storage)
    /\ gh' = "publish"
    /\ UNCHANGED <<diffVars, execVars, site, installVars, a11yVars, cell>>

\* A command of the step exits non-zero: the later steps do not run.  What
\* ./_build/html holds by then is the pages built before the failing command
\* stopped: none when the fetch or the checkout fails, some of them when
\* jupyter-book build fails part-way.
BuildHtmlFails ==
    /\ gh = "build"
    /\ \E done \in (SUBSET Notebooks) \ {Notebooks} :
         built' = [p \in Notebooks |-> IF p \in done THEN storage[p] ELSE Source(Absent)]
    /\ gh' = "failure"
    /\ UNCHANGED <<diffVars, execVars, site, installVars, a11yVars, cell>>

\* The publish step with if: always(): it runs after a failed build too.
PublishAlways ==
    /\ gh \in {"publish", "failure"}
    /\ site' = built
    /\ gh' = IF gh = "failure" THEN "failure" ELSE "success"
    /\ UNCHANGED <<diffVars, execVars, built, installVars, a11yVars, cell>>

\* GitHub Pages action: ./_build/html is pushed to the pages branch.
Publish ==
    /\ gh = "publish"
    /\ site' = built
    /\ gh' = "success"
    /\ UNCHANGED <<diffVars, execVars, built, installVars, a11yVars, cell>>

(***************************************************************************)
(* Weekly HTML Accessibility Check: on schedule and on workflow_dispatch   *)
(* with the inputs total_error_limit and total_warning_limit; one job,     *)
(* which calls html_accessibility_check.yml of notebook-ci-actions.        *)
(***************************************************************************)
MaxLimit == 2

InputNames == {"total_error_limit", "total_warning_limit"}

\* Strings are sequences of characters.
DigitChars == <<"0", "1", "2", "3", "4", "5", "6", "7", "8", "9">>

RECURSIVE NatToStr(_)
NatToStr(n) ==
    IF n < 10 THEN <<DigitChars[n + 1]>>
    ELSE NatToStr(n \div 10) \o <<DigitChars[(n % 10) + 1]>>

IntToStr(n) == IF n < 0 THEN <<"-">> \o NatToStr(-n) ELSE NatToStr(n)

CharVal(c) == CHOOSE d \in 0..9 : DigitChars[d + 1] = c

RECURSIVE StrToNat(_)
StrToNat(s) ==
    IF Len(s) = 0 THEN 0
    ELSE 10 * StrToNat(SubSeq(s, 1, Len(s) - 1)) + CharVal(s[Len(s)])

StrToInt(s) == IF Len(s) > 0 /\ s[1] = "-" THEN -StrToNat(Tail(s)) ELSE StrToNat(s)

\* The values of the expression language: null, a string, a number.
Null == [t |-> "null", s |-> <<>>, n |-> 0]
Str(x) == [t |-> "str", s |-> x, n |-> 0]
Num(k) == [t |-> "num", s |-> <<>>, n |-> k]

\* null, the empty string and 0 are falsy; every other value is truthy.
Truthy(v) ==
    CASE v.t = "null" -> FALSE
      [] v.t = "str"  -> v.s # <<>>
      [] v.t = "num"  -> v.n # 0

\* a || b: a when a is truthy, b otherwise.
Or(a, b) == IF Truthy(a) THEN a ELSE b

\* The text ${{ }} puts for a value.
Format(v) ==
    CASE v.t = "null" -> <<>>
      [] v.t = "str"  -> v.s
      [] v.t = "num"  -> IntToStr(v.n)

\* What a dispatcher can do with an input: leave it out (Null), clear the
\* field, or enter -1, 0, 1, ...
Supplied == {Null, Str(<<>>)} \cup {Str(IntToStr(n)) : n \in -1..MaxLimit}

\* default: 0 of a type: string input.
DefaultOf(i) == Str(IntToStr(0))

\* The inputs context: on workflow_dispatch the entered value, or the default
\* for an input left out; on schedule there are no inputs.
Inputs(i) ==
    IF evt = "workflow_dispatch"
    THEN IF supplied[i] = Null THEN DefaultOf(i) ELSE supplied[i]
    ELSE Null

\* with: ${{ inputs.<i> }}, without "|| 0".
WithLimitNoDefault(i) == Format(Inputs(i))

\* with: total_error_limit: ${{ inputs.total_error_limit || 0 }}, and the
\* same for total_warning_limit.
WithLimit(i) == Format(Or(Inputs(i), Num(0)))

A11yIdle ==
    /\ a11y = "idle"
    /\ evt = "none"
    /\ supplied = [i \in InputNames |-> Null]
    /\ passed = [i \in InputNames |-> <<>>]

\* cron: '0 4 * * 0'
ScheduleFires ==
    /\ a11y = "idle"
    /\ evt' = "schedule"
    /\ a11y' = "triggered"
    /\ UNCHANGED <<pipelineVars, supplied, passed, cell>>

WorkflowDispatch ==
    /\ a11y = "idle"
    /\ evt' = "workflow_dispatch"
    /\ supplied' \in [InputNames -> Supplied]
    /\ a11y' = "triggered"
    /\ UNCHANGED <<pipelineVars, passed, cell>>

\* The job Scheduled: the reusable workflow is called with the with: values.
CallAccessibilityCheck ==
    /\ a11y = "triggered"
    /\ passed' = [i \in InputNames |-> WithLimit(i)]
    /\ a11y' = "called"
    /\ UNCHANGED <<pipelineVars, evt, supplied, cell>>

\* The called workflow concludes; what decides its conclusion is in
\* notebook-ci-actions, so either conclusion is possible here.
CheckSucceeds ==
    /\ a11y = "called"
    /\ a11y' = "success"
    /\ UNCHANGED <<pipelineVars, evt, supplied, passed, cell>>

CheckFails ==
    /\ a11y = "called"
    /\ a11y' = "failure"
    /\ UNCHANGED <<pipelineVars, evt, supplied, passed, cell>>

(***************************************************************************)
(* The pipeline                                                            *)
(***************************************************************************)
\* A pull request is closed.  Every notebook is in the merge base at version
\* 1 and the pull request has left it or changed it to version 2; the base
\* branch is where the merge base is, or has made the same changes; gh-storage
\* holds the executed notebooks of the merge base or, from an earlier run,
\* those of the head.
Init ==
    /\ merged \in BOOLEAN
    /\ mbTree = [p \in Paths |-> 1]
    /\ headTree \in {t \in Trees : t[<<1, "txt">>] = 1 /\ \A p \in Notebooks : t[p] \in {1, 2}}
    /\ baseTree \in {mbTree, headTree}
    /\ run = "event"
    /\ pm = "waiting"
    /\ matrix = <<>>
    /\ en = "waiting"
    /\ job = <<>>
    /\ storage \in {[p \in Notebooks |-> Executed(mbTree[p])],
                    [p \in Notebooks |-> Executed(headTree[p])]}
    /\ gh = "waiting"
    /\ built = storage
    /\ site = storage
    /\ dirFiles = {}
    /\ ipc = 0
    /\ applied = <<>>
    /\ A11yIdle
    /\ cell = NoCell

Next ==
    \/ Trigger
    \/ NotTriggered
    \/ SkipPrepareMatrix
    \/ SetMatrix
    \/ SetMatrixFails
    \/ ExpandMatrix
    \/ SkipExecuteNotebooks
    \/ \E k \in Jobs : StartJob(k)
    \/ \E k \in Jobs : Install(k)
    \/ \E k \in Jobs : InstallFails(k)
    \/ \E k \in Jobs : ExecuteOk(k)
    \/ \E k \in Jobs : ExecuteRaises(k)
    \/ \E k \in Jobs : Commit(k)
    \/ \E k \in Jobs : CommitFails(k)
    \/ \E k \in Jobs : Transplant(k)
    \/ \E k \in Jobs : TransplantFails(k)
    \/ \E k \in Jobs : CommitStorage(k)
    \/ \E k \in Jobs : CommitStorageFails(k)
    \/ \E k \in Jobs : PushOk(k)
    \/ \E k \in Jobs : PushFails(k)
    \/ \E k \in Jobs : Sleep(k)
    \/ StartGenerateHtml
    \/ SkipGenerateHtml
    \/ BuildHtml
    \/ BuildHtmlFails
    \/ Publish

Spec == Init /\ [][Next]_vars

\* One run under fairness: the runners take every job that is ready and run
\* every step to its end.  The pull request changed no notebook, the first
\* one, or the first two, on a base branch that is at the merge base.
InitFair ==
    /\ Init
    /\ headTree \in {[p \in Paths |-> IF MatchesIpynb(p) /\ p[1] <= n THEN 2 ELSE 1] :
                         n \in 0..2}
    /\ baseTree = mbTree

FairSpec == InitFair /\ [][Next]_vars /\ WF_vars(Next)

(***************************************************************************)
(* Two runs whose jobs overlap: a run for a pull request that changed the  *)
(* first two notebooks, and a second run (a later pull request, or the     *)
(* first run again) that executes the first notebook.  Both matrices are   *)
(* expanded; the jobs step in any order.                                   *)
(***************************************************************************)
\* The jobs of the first run, then the job of the second.
TwoRunsEntries == <<EntryOf(<<1, "ipynb">>), EntryOf(<<2, "ipynb">>), EntryOf(<<1, "ipynb">>)>>

\* The jobs of one run are the first two; the third is of the other run.
SameRun(k, j) == (k <= 2) = (j <= 2)

InitTwoRuns ==
    /\ merged = TRUE
    /\ mbTree = [p \in Paths |-> 1]
    /\ headTree = [p \in Paths |-> IF MatchesIpynb(p) /\ p[1] <= 2 THEN 2 ELSE 1]
    /\ baseTree = mbTree
    /\ run = "running"
    /\ pm = "success"
    /\ matrix = SubSeq(TwoRunsEntries, 1, 2)
    /\ en = "expanded"
    /\ storage = [p \in Notebooks |-> Executed(mbTree[p])]
    /\ job = [k \in 1..Len(TwoRunsEntries) |-> NewJob(TwoRunsEntries[k])]
    /\ gh = "waiting"
    /\ built = storage
    /\ site = storage
    /\ dirFiles = {}
    /\ ipc = 0
    /\ applied = <<>>
    /\ A11yIdle
    /\ cell = NoCell

NextTwoRuns ==
    \/ \E k \in Jobs : StartJob(k)
    \/ \E k \in Jobs : Install(k)
    \/ \E k \in Jobs : InstallFails(k)
    \/ \E k \in Jobs : ExecuteOk(k)
    \/ \E k \in Jobs : ExecuteRaises(k)
    \/ \E k \in Jobs : Commit(k)
    \/ \E k \in Jobs : CommitFails(k)
    \/ \E k \in Jobs : Transplant(k)
    \/ \E k \in Jobs : TransplantFails(k)
    \/ \E k \in Jobs : CommitStorage(k)
    \/ \E k \in Jobs : CommitStorageFails(k)
    \/ \E k \in Jobs : PushOk(k)
    \/ \E k \in Jobs : PushFails(k)
    \/ \E k \in Jobs : Sleep(k)

SpecTwoRuns == InitTwoRuns /\ [][NextTwoRuns]_vars

(***************************************************************************)
(* The accessibility workflow alone.                                       *)
(***************************************************************************)
InitA11y ==
    /\ Init
    /\ merged = FALSE
    /\ headTree = mbTree
    /\ storage = [p \in Notebooks |-> Executed(mbTree[p])]

NextA11y ==
    \/ ScheduleFires
    \/ WorkflowDispatch
    \/ CallAccessibilityCheck
    \/ CheckSucceeds
    \/ CheckFails

SpecA11y == InitA11y /\ [][NextA11y]_vars

(***************************************************************************)
(* generate_html alone, run and run again on one gh-storage.               *)
(***************************************************************************)
\* The notebooks gh-storage can hold: executed or marked, of any version.
StoredNotebooks ==
    {Executed(v) : v \in Versions} \cup {InsertFailureMessage(Source(v)) : v \in Versions}

\* The job is at its Build HTML step; the hosted site is the output of an
\* earlier build from the same gh-storage.
InitBuild ==
    /\ merged = TRUE
    /\ mbTree = [p \in Paths |-> 1]
    /\ baseTree = mbTree
    /\ headTree = mbTree
    /\ run = "running"
    /\ pm = "success"
    /\ matrix = <<>>
    /\ en = "expanded"
    /\ job = <<>>
    /\ storage \in [Notebooks -> StoredNotebooks]
    /\ gh = "build"
    /\ built \in BuildOutputs(storage)
    /\ site = built
    /\ dirFiles = {}
    /\ ipc = 0
    /\ applied = <<>>
    /\ A11yIdle
    /\ cell = NoCell

\* Re-run jobs: the concluded generate_html job is run again on a fresh runner.
RerunGenerateHtml ==
    /\ gh \in {"success", "failure"}
    /\ gh' = "build"
    /\ UNCHANGED <<diffVars, execVars, built, site, installVars, a11yVars, cell>>

NextBuild ==
    \/ BuildHtml
    \/ BuildHtmlFails
    \/ Publish
    \/ RerunGenerateHtml

SpecBuild == InitBuild /\ [][NextBuild]_vars

(***************************************************************************)
(* The matrix builder alone, over every base, head and merge base.         *)
(***************************************************************************)
\* A notebook of the merge base is absent or at version 1; base and head
\* hold any version of it or lack it.
InitMatrix ==
    /\ merged \in BOOLEAN
    /\ mbTree \in {t \in Trees : t[<<1, "txt">>] = 1 /\ \A p \in Paths : t[p] \in {Absent, 1}}
    /\ baseTree \in {t \in Trees : t[<<1, "txt">>] = 1}
    /\ headTree \in {t \in Trees : t[<<1, "txt">>] \in {Absent, 1}}
    /\ run = "event"
    /\ pm = "waiting"
    /\ matrix = <<>>
    /\ en = "waiting"
    /\ job = <<>>
    /\ storage = [p \in Notebooks |-> Executed(1)]
    /\ gh = "waiting"
    /\ built = storage
    /\ site = storage
    /\ dirFiles = {}
    /\ ipc = 0
    /\ applied = <<>>
    /\ A11yIdle
    /\ cell = NoCell

NextMatrix ==
    \/ Trigger
    \/ NotTriggered
    \/ SkipPrepareMatrix
    \/ SetMatrix
    \/ SetMatrixFails

SpecMatrix == InitMatrix /\ [][NextMatrix]_vars

(***************************************************************************)
(* The Install dependencies step of one matrix job, block by block.        *)
(***************************************************************************)
\* The names the step looks for or uses in $(dirname matrix.notebooks).
DirNames ==
    {"pre-installl.sh", "pre-install.sh", "pre-requirements.sh",
     "pre-requirements.txt", "requirements.txt"}

\* The blocks with the two manifests in the other order.
InstallBlocksSwapped ==
    << [test |-> "pre-installl.sh",      item |-> "pre-install.sh",       script |-> TRUE],
       [test |-> "pre-requirements.sh",  item |-> "pre-requirements.sh",  script |-> TRUE],
       [test |-> "requirements.txt",     item |-> "requirements.txt",     script |-> FALSE],
       [test |-> "pre-requirements.txt", item |-> "pre-requirements.txt", script |-> FALSE] >>

\* The if-blocks of the script in their order: the file [ -f ... ] tests,
\* the file the body applies, and whether the body is chmod +x and run
\* (a script) or uv pip install -r (a manifest).
InstallBlocks ==
    << [test |-> "pre-installl.sh",      item |-> "pre-install.sh",       script |-> TRUE],
       [test |-> "pre-requirements.sh",  item |-> "pre-requirements.sh",  script |-> TRUE],
       [test |-> "pre-requirements.txt", item |-> "pre-requirements.txt", script |-> FALSE],
       [test |-> "requirements.txt",     item |-> "requirements.txt",     script |-> FALSE] >>

NumBlocks == Len(InstallBlocks)

AtBlock == ipc \in 1..NumBlocks

\* [ -f file ] is false: the block is passed over.
SkipBlock ==
    /\ AtBlock
    /\ InstallBlocks[ipc].test \notin dirFiles
    /\ ipc' = ipc + 1
    /\ UNCHANGED <<diffVars, execVars, htmlVars, dirFiles, applied, a11yVars, cell>>

\* The body runs the script or installs the manifest, with status 0.
ApplyBlock ==
    /\ AtBlock
    /\ InstallBlocks[ipc].test \in dirFiles
    /\ InstallBlocks[ipc].item \in dirFiles
    /\ applied' = Append(applied, InstallBlocks[ipc].item)
    /\ ipc' = ipc + 1
    /\ UNCHANGED <<diffVars, execVars, htmlVars, dirFiles, a11yVars, cell>>

\* The script or uv pip install exits non-zero: bash -e ends the step.
ApplyBlockFails ==
    /\ AtBlock
    /\ InstallBlocks[ipc].test \in dirFiles
    /\ InstallBlocks[ipc].item \in dirFiles
    /\ applied' = Append(applied, InstallBlocks[ipc].item)
    /\ ipc' = -1
    /\ UNCHANGED <<diffVars, execVars, htmlVars, dirFiles, a11yVars, cell>>

\* chmod +x on a file that is not there exits 1: bash -e ends the step.
ApplyMissingFails ==
    /\ AtBlock
    /\ InstallBlocks[ipc].test \in dirFiles
    /\ InstallBlocks[ipc].item \notin dirFiles
    /\ ipc' = -1
    /\ UNCHANGED <<diffVars, execVars, htmlVars, dirFiles, applied, a11yVars, cell>>

\* uv pip install --system pytest, nbval, nbconvert, bandit: the step ends.
InstallTools ==
    /\ ipc = NumBlocks + 1
    /\ ipc' = NumBlocks + 2
    /\ UNCHANGED <<diffVars, execVars, htmlVars, dirFiles, applied, a11yVars, cell>>

InstallDone == ipc = NumBlocks + 2
InstallFailed == ipc = -1

InitInstall ==
    /\ merged = TRUE
    /\ mbTree = [p \in Paths |-> 1]
    /\ baseTree = mbTree
    /\ headTree = [mbTree EXCEPT ![<<1, "ipynb">>] = 2]
    /\ run = "running"
    /\ pm = "success"
    /\ matrix = <<EntryOf(<<1, "ipynb">>)>>
    /\ en = "expanded"
    /\ storage = [p \in Notebooks |-> Executed(1)]
    /\ job = <<[NewJob(matrix[1]) EXCEPT !.pc = "install"]>>
    /\ gh = "waiting"
    /\ built = storage
    /\ site = storage
    /\ dirFiles \in SUBSET DirNames
    /\ ipc = 1
    /\ applied = <<>>
    /\ A11yIdle
    /\ cell = NoCell

NextInstall ==
    \/ SkipBlock
    \/ ApplyBlock
    \/ ApplyBlockFails
    \/ ApplyMissingFails
    \/ InstallTools

SpecInstall == InitInstall /\ [][NextInstall]_vars

(***************************************************************************)
(* Notebook cells.  A cell is run on its own: the workflows are at rest.   *)
(***************************************************************************)
AtRest ==
    /\ merged = FALSE
    /\ mbTree = [p \in Paths |-> 1]
    /\ baseTree = mbTree
    /\ headTree = mbTree
    /\ run = "event"
    /\ pm = "waiting"
    /\ matrix = <<>>
    /\ en = "waiting"
    /\ job = <<>>
    /\ storage = [p \in Notebooks |-> Executed(mbTree[p])]
    /\ gh = "waiting"
    /\ built = storage
    /\ site = storage
    /\ dirFiles = {}
    /\ ipc = 0
    /\ applied = <<>>
    /\ A11yIdle

RestVars == <<pipelineVars, a11yVars>>

(***************************************************************************)
(* COS notebook: the loop that deletes the files not wanted.               *)
(*   for file in cos_files:                                                *)
(*       hdr = fits.getheader(file)                                        *)
(*       if (cenwave < 1250): os.remove(file); continue                    *)
(*       if not ((life_adj == 1) or (life_adj == 4)): os.remove(file)      *)
(***************************************************************************)
MaxFiles == 2
CenwaveLimit == 1250

CosFiles == 1..MaxFiles
\* Header values: a blue-mode central wavelength, the limit itself, a
\* standard one; the lifetime positions.
Cenwaves == {1222, CenwaveLimit, 1291}
LifeAdjs == 1..5
Headers == [CENWAVE : Cenwaves, LIFE_ADJ : LifeAdjs]

\* os.remove(f): the file is unlinked; FileNotFoundError when it is not there.
OsRemove(c, f) ==
    IF f \in c.dir
    THEN [c EXCEPT !.dir = @ \ {f}, !.removes[f] = @ + 1]
    ELSE [c EXCEPT !.pc = "error", !.removes[f] = @ + 1]

\* The next file of cos_files, or the end of the loop.
NextFile(c) ==
    IF c.pc = "error" THEN c
    ELSE [c EXCEPT !.n = @ + 1, !.pc = IF c.n = Len(c.cos_files) THEN "done" ELSE "loop"]

CurFile == cell.cos_files[cell.n]
CurHdr == cell.hdr[CurFile]

\* cos_files = glob.glob('./cos_data/*fits'): every file of the directory.
InitCos ==
    /\ AtRest
    /\ \E h \in [CosFiles -> Headers] :
         cell = [pc |-> "loop", hdr |-> h,
                 cos_files |-> [i \in 1..MaxFiles |-> i], n |-> 1,
                 dir |-> CosFiles, removes |-> [f \in CosFiles |-> 0]]

\* The first if without its continue: the second if is tested as well.
RemoveBelowLimitNoContinue ==
    /\ cell.pc = "loop"
    /\ CurHdr.CENWAVE < CenwaveLimit
    /\ cell' = NextFile(IF ~(CurHdr.LIFE_ADJ = 1 \/ CurHdr.LIFE_ADJ = 4)
                        THEN OsRemove(OsRemove(cell, CurFile), CurFile)
                        ELSE OsRemove(cell, CurFile))
    /\ UNCHANGED RestVars

\* if (cenwave < 1250): os.remove(file); continue
RemoveBelowLimit ==
    /\ cell.pc = "loop"
    /\ CurHdr.CENWAVE < CenwaveLimit
    /\ cell' = NextFile(OsRemove(cell, CurFile))
    /\ UNCHANGED RestVars

\* if not ((life_adj == 1) or (life_adj == 4)): os.remove(file)
RemoveOtherLifeAdj ==
    /\ cell.pc = "loop"
    /\ ~(CurHdr.CENWAVE < CenwaveLimit)
    /\ ~(CurHdr.LIFE_ADJ = 1 \/ CurHdr.LIFE_ADJ = 4)
    /\ cell' = NextFile(OsRemove(cell, CurFile))
    /\ UNCHANGED RestVars

\* Neither if holds: the file stays.
KeepFile ==
    /\ cell.pc = "loop"
    /\ ~(CurHdr.CENWAVE < CenwaveLimit)
    /\ CurHdr.LIFE_ADJ = 1 \/ CurHdr.LIFE_ADJ = 4
    /\ cell' = NextFile(cell)
    /\ UNCHANGED RestVars

NextCos ==
    \/ RemoveBelowLimit
    \/ RemoveOtherLifeAdj
    \/ KeepFile

SpecCos == InitCos /\ [][NextCos]_vars

(***************************************************************************)
(* Persistence notebook: the cell that adds the DQ flag.                   *)
(*   fltN_dq = fits.open(..., mode='update'); perN = fits.getdata(...)     *)
(*   fltN_dq[3].data[perN > 0.005] += 16384                                *)
(*   fltN_dq.close()                                                       *)
(* The DQ extension is an array of 16-bit signed integers; model values    *)
(* are counted in units of 0.001 e-/s.                                     *)
(***************************************************************************)
MaxRuns == 2
NumFrames == 4
NumPixels == 2
DqFlag == 16384
PersistThreshold == 5

Frames == 1..NumFrames
Pixels == 1..NumPixels

\* A sum as numpy stores it in an int16 array: modulo 2^16, signed.
Wrap16(x) == ((x + 2^15) % 2^16) - 2^15

\* DQ values of a calibrated FLT: no flag, a flag, every flag below 16384.
FreshDq == {0, 512, DqFlag - 1}
\* Model values: at the threshold and above it.
ModelValues == {PersistThreshold, PersistThreshold + 1}

\* data[per >= 0.005] += 16384 on one frame.
AddToMaskedAtLeast(data, per) ==
    [x \in Pixels |-> IF per[x] >= PersistThreshold THEN Wrap16(data[x] + DqFlag) ELSE data[x]]

\* data[per > 0.005] += 16384 on one frame.
AddToMasked(data, per) ==
    [x \in Pixels |-> IF per[x] > PersistThreshold THEN Wrap16(data[x] + DqFlag) ELSE data[x]]

\* The files as downloaded: the four frames have the DQ values d; every
\* frame has its own persistence model.
InitDq ==
    /\ AtRest
    /\ \E d \in [Pixels -> FreshDq], m \in [Frames -> [Pixels -> ModelValues]] :
         cell = [pc |-> "closed", runs |-> 0, k |-> 1,
                 disk |-> [f \in Frames |-> d], orig |-> [f \in Frames |-> d],
                 dq |-> [f \in Frames |-> d], per |-> m]

\* The cell is run: the four files are opened for update and read.
OpenFlt ==
    /\ cell.pc = "closed"
    /\ cell.runs < MaxRuns
    /\ cell' = [cell EXCEPT !.pc = "flag", !.k = 1, !.dq = cell.disk, !.runs = @ + 1]
    /\ UNCHANGED RestVars

\* fltK_dq[3].data[perK > 0.005] += 16384, for K = 1, 2, 3, 4 in turn.
AddFlag ==
    /\ cell.pc = "flag"
    /\ cell' = [cell EXCEPT !.dq[cell.k] = AddToMasked(@, cell.per[cell.k]),
                            !.k = IF cell.k < NumFrames THEN @ + 1 ELSE @,
                            !.pc = IF cell.k < NumFrames THEN "flag" ELSE "close"]
    /\ UNCHANGED RestVars

\* fltK_dq.close(): the arrays are written to the files.
CloseFlt ==
    /\ cell.pc = "close"
    /\ cell' = [cell EXCEPT !.disk = cell.dq, !.pc = "closed"]
    /\ UNCHANGED RestVars

NextDq ==
    \/ OpenFlt
    \/ AddFlag
    \/ CloseFlt

SpecDq == InitDq /\ [][NextDq]_vars

(***************************************************************************)
(* Ephemeris notebook: the cell that fetches and reads the jitter file.    *)
(* download_file returns (status, message): ('COMPLETE', None) when the    *)
(* file was written, ('ERROR', 'HTTPError: <code> ...') otherwise.         *)
(***************************************************************************)
HttpStatuses == {200, 404, 500, 503}
JitFiles == {"rootname_jit", "asn_jit"}
AsnIds == {"NONE", "jec0c6010"}
NoMessage == "None"
NotFoundMessage == "HTTPError: 404 Client Error: Not Found for url"
ServerErrorMessage == "HTTPError: 5xx Server Error"

\* The value download_file returns for the HTTP status of the request.
DownloadFile(h) ==
    IF h = 200 THEN <<"COMPLETE", NoMessage>>
    ELSE IF h = 404 THEN <<"ERROR", NotFoundMessage>>
    ELSE <<"ERROR", ServerErrorMessage>>

\* os.path.exists(jit_path) and (mast_msg[0] != 'ERROR')
RootnameFetched(c) == "rootname_jit" \in c.files /\ c.mast_msg[1] # "ERROR"

\* 'HTTPError: 404 Client Error: Not Found for url' in mast_msg[1]
NotFoundIn(c) == c.mast_msg[2] = NotFoundMessage

\* data_dir may hold jit files of an earlier run; the exposure's header
\* names its association, or NONE.
InitJit ==
    /\ AtRest
    /\ \E fs \in SUBSET JitFiles, a \in AsnIds :
         cell = [pc |-> "download", files |-> fs, asn_id |-> a, first |-> 0,
                 mast_msg |-> <<"", NoMessage>>, jit_data |-> "undefined"]

\* mast_msg = download_file('mast:HST/product/' + <rootname>_jit.fits, ...)
DownloadRootnameJit ==
    /\ cell.pc = "download"
    /\ \E h \in HttpStatuses :
         cell' = [cell EXCEPT !.mast_msg = DownloadFile(h), !.first = h,
                              !.files = IF h = 200 THEN @ \cup {"rootname_jit"} ELSE @,
                              !.pc = "if"]
    /\ UNCHANGED RestVars

\* if ...: jit_data = astropy.io.fits.getdata(jit_path)
ReadRootnameJit ==
    /\ cell.pc = "if"
    /\ RootnameFetched(cell)
    /\ cell' = [cell EXCEPT !.jit_data = "rootname_jit", !.pc = "print"]
    /\ UNCHANGED RestVars

\* elif ...: the jit file named after ASN_ID is requested; the archive has
\* no product for NONE.
DownloadAsnJit ==
    /\ cell.pc = "if"
    /\ ~RootnameFetched(cell)
    /\ NotFoundIn(cell)
    /\ \E h \in HttpStatuses :
         /\ cell.asn_id = "NONE" => h # 200
         /\ cell' = [cell EXCEPT !.mast_msg = DownloadFile(h),
                                  !.files = IF h = 200 THEN @ \cup {"asn_jit"} ELSE @,
                                  !.pc = "getdata"]
    /\ UNCHANGED RestVars

\* Neither the if nor the elif holds: the cell goes on to the print.
NoBranchTaken ==
    /\ cell.pc = "if"
    /\ ~RootnameFetched(cell)
    /\ ~NotFoundIn(cell)
    /\ cell' = [cell EXCEPT !.pc = "print"]
    /\ UNCHANGED RestVars

\* jit_data = astropy.io.fits.getdata(jit_path) in the elif, file present.
ReadAsnJit ==
    /\ cell.pc = "getdata"
    /\ "asn_jit" \in cell.files
    /\ cell' = [cell EXCEPT !.jit_data = "asn_jit", !.pc = "print"]
    /\ UNCHANGED RestVars

\* The same getdata with no file at jit_path: FileNotFoundError ends the cell.
ReadAsnJitRaises ==
    /\ cell.pc = "getdata"
    /\ "asn_jit" \notin cell.files
    /\ cell' = [cell EXCEPT !.pc = "raised"]
    /\ UNCHANGED RestVars

\* print(mast_msg[0])
PrintStatus ==
    /\ cell.pc = "print"
    /\ cell' = [cell EXCEPT !.pc = "end"]
    /\ UNCHANGED RestVars

NextJit ==
    \/ DownloadRootnameJit
    \/ ReadRootnameJit
    \/ DownloadAsnJit
    \/ NoBranchTaken
    \/ ReadAsnJit
    \/ ReadAsnJitRaises
    \/ PrintStatus

SpecJit == InitJit /\ [][NextJit]_vars

(***************************************************************************)
(* Ephemeris notebook: the cell that summarises the Earth limb angle.      *)
(* Angles are counted in tenths of a degree; a name the cell has assigned  *)
(* is in the domain of env.                                                *)
(***************************************************************************)
MaxSamples == 3
LimbAngles == {396, 463, 529}
ElaArrays == UNION {[1..n -> LimbAngles] : n \in 0..MaxSamples}

RECURSIVE SeqSum(_)
SeqSum(a) == IF a = <<>> THEN 0 ELSE Head(a) + SeqSum(Tail(a))

\* np.min, np.max and np.mean of a non-empty array; on an empty one np.min
\* and np.max raise ValueError.
NpMin(a) == CHOOSE v \in {a[i] : i \in 1..Len(a)} : \A i \in 1..Len(a) : v <= a[i]
NpMax(a) == CHOOSE v \in {a[i] : i \in 1..Len(a)} : \A i \in 1..Len(a) : v >= a[i]
NpMean(a) == <<SeqSum(a), Len(a)>>

\* env with the name n bound to v.
Assign(env, n, v) == [m \in DOMAIN env \cup {n} |-> IF m = n THEN v ELSE env[m]]

\* ela_arr = np.array(jit_data['LimbAng'])
InitEla ==
    /\ AtRest
    /\ \E a \in ElaArrays :
         cell = [pc |-> "try", ela_arr |-> a, env |-> <<>>, printed |-> <<>>, raised |-> "none"]

\* try: ela_min = np.min(ela_arr), no exception.
TryMin ==
    /\ cell.pc = "try"
    /\ cell.ela_arr # <<>>
    /\ cell' = [cell EXCEPT !.env = Assign(@, "ela_min", NpMin(cell.ela_arr)), !.pc = "stats"]
    /\ UNCHANGED RestVars

\* except ValueError: print('ELA array is empty')
TryMinCaught ==
    /\ cell.pc = "try"
    /\ cell.ela_arr = <<>>
    /\ cell' = [cell EXCEPT !.printed = Append(@, "ELA array is empty"), !.pc = "stats"]
    /\ UNCHANGED RestVars

\* An empty array passes the statistics by: the cell ends without them.
StatsSkipped ==
    /\ cell.pc = "stats"
    /\ cell.ela_arr = <<>>
    /\ cell' = [cell EXCEPT !.pc = "end"]
    /\ UNCHANGED RestVars

\* ela_min = np.min(ela_arr) after the try, on an empty array: ValueError.
StatsRaise ==
    /\ cell.pc = "stats"
    /\ cell.ela_arr = <<>>
    /\ cell' = [cell EXCEPT !.raised = "ValueError", !.pc = "raised"]
    /\ UNCHANGED RestVars

\* ela_min = np.min(ela_arr); ela_max = np.max(ela_arr); ela_mean = np.mean(ela_arr)
Stats ==
    /\ cell.pc = "stats"
    /\ cell.ela_arr # <<>>
    /\ cell' = [cell EXCEPT !.env = Assign(Assign(Assign(@, "ela_min", NpMin(cell.ela_arr)),
                                                  "ela_max", NpMax(cell.ela_arr)),
                                           "ela_mean", NpMean(cell.ela_arr)),
                            !.pc = "print"]
    /\ UNCHANGED RestVars

\* print(f'ELA ranges from ...')
PrintRange ==
    /\ cell.pc = "print"
    /\ cell' = [cell EXCEPT !.printed = Append(@, "ELA ranges from"), !.pc = "end"]
    /\ UNCHANGED RestVars

NextEla ==
    \/ TryMin
    \/ TryMinCaught
    \/ StatsRaise
    \/ Stats
    \/ PrintRange

SpecEla == InitEla /\ [][NextEla]_vars

(***************************************************************************)
(* COS notebook: get_gaussian(sigma).                                      *)
(* sigma is the fraction num/den.  An element of the kernel is             *)
(* exp(-0.5 * x**2) with x = (xx - mu)/sigma; it is kept as the fraction   *)
(* x**2 = x2num/x2den, which orders the values (exp decreases) and tells   *)
(* the value 1 (x**2 = 0).                                                 *)
(***************************************************************************)
MaxNum == 10
MaxDen == 8
Sigmas == [num : 1..MaxNum, den : 1..MaxDen]

\* int(8 * sigma): the product truncated toward zero, sigma > 0.
IntOf8Sigma(sg) == (8 * sg.num) \div sg.den

\* The length is left as int(8 * sigma) gives it.
OddLengthUnfixed(length) == length

\* if (length % 2 == 0): length += 1
OddLength(length) == IF length % 2 = 0 THEN length + 1 ELSE length

\* mu = int(length / 2)
Mu(length) == length \div 2

\* np.exp(-0.5 * ((np.arange(length) - mu)/sigma)**2), element xx at index xx + 1.
Gaussian(length, sg) ==
    [i \in 1..length |-> [x2num |-> ((i - 1) - Mu(length)) * ((i - 1) - Mu(length)) * sg.den * sg.den,
                          x2den |-> sg.num * sg.num]]

\* The value of an element is 1; the value of e is at most that of f.
IsOne(e) == e.x2num = 0
ValueAtMost(e, f) == e.x2num * f.x2den >= f.x2num * e.x2den

InitGauss ==
    /\ AtRest
    /\ \E sg \in Sigmas :
         cell = [pc |-> "call", sigma |-> sg, length |-> 0, gauss |-> <<>>]

\* length = int(8 * sigma)
ComputeLength ==
    /\ cell.pc = "call"
    /\ cell' = [cell EXCEPT !.length = IntOf8Sigma(cell.sigma), !.pc = "odd"]
    /\ UNCHANGED RestVars

\* Kernel length must be odd.
MakeOdd ==
    /\ cell.pc = "odd"
    /\ cell' = [cell EXCEPT !.length = OddLength(@), !.pc = "kernel"]
    /\ UNCHANGED RestVars

\* xx, mu, x and the returned array.
ReturnGaussian ==
    /\ cell.pc = "kernel"
    /\ cell' = [cell EXCEPT !.gauss = Gaussian(cell.length, cell.sigma), !.pc = "returned"]
    /\ UNCHANGED RestVars

NextGauss ==
    \/ ComputeLength
    \/ MakeOdd
    \/ ReturnGaussian

SpecGauss == InitGauss /\ [][NextGauss]_vars

(***************************************************************************)
(* Properties                                                              *)
(***************************************************************************)
AllConcluded == en = "expanded" /\ \A k \in Jobs : Concluded(k)

\* C1: when two or more execute-notebooks jobs of one run have each pushed
\* their own notebook path to gh-storage, the final gh-storage holds the
\* notebook every one of them committed: no job's commit is lost.
C1_NoCommitLost ==
    (AllConcluded /\ Len(job) >= 2 /\ \A k \in Jobs : job[k].pushed)
        => \A k \in Jobs : storage[PathOf(k)] = job[k].committed

\* All MAX_RETRIES pushes of job k have failed and the loop is over.
PushesExhausted(k) ==
    /\ job[k].attempts = MAX_RETRIES
    /\ ~job[k].pushed
    /\ job[k].pc \notin {"push", "sleep"}

\* C2: if all 5 push attempts of a publisher fail, its execute-notebooks job
\* concludes failure, generate_html does not run and nothing is published.
C2_ExhaustedPushFailsRun ==
    \A k \in Jobs :
        PushesExhausted(k) =>
            /\ job[k].pc = "failure"
            /\ gh \in {"waiting", "skipped"}
            /\ site = built

IpynbDiffer(a, b) == {p \in Differ(a, b) : MatchesIpynb(p)}

\* C4 as stated: the matrix, as a set, is exactly the set of .ipynb files
\* that differ between the base commit and the head commit.
C4_MatrixIsBaseHeadDiff ==
    pm = "success" => MatrixSet = {EntryOf(p) : p \in IpynbDiffer(baseTree, headTree)}

\* C4 as amended: the matrix, as a set, holds only .ipynb files that differ
\* between the merge base of base and head (base...head) and head, every
\* such file that head holds, and all of them but the old names of renames
\* (at most one per added file); no entry is empty or listed twice.
C4_MatrixIsMergeBaseHeadDiff ==
    pm = "success" =>
        /\ MatrixSet \subseteq {EntryOf(p) : p \in IpynbDiffer(mbTree, headTree)}
        /\ \A p \in IpynbDiffer(mbTree, headTree) :
              headTree[p] # Absent => EntryOf(p) \in MatrixSet
        /\ Cardinality({p \in IpynbDiffer(mbTree, headTree) : EntryOf(p) \notin MatrixSet})
              <= Cardinality(Added(mbTree, headTree))
        /\ EmptyEntry \notin MatrixSet
        /\ Cardinality(MatrixSet) = Len(matrix)

\* A matrix of two notebooks where base has moved on from the merge base.
C4_Witness ==
    /\ pm = "success"
    /\ Len(matrix) = 2
    /\ IpynbDiffer(baseTree, headTree) # IpynbDiffer(mbTree, headTree)

C6_StagesInOrder ==
    /\ gh \in {"build", "publish", "success", "failure"} => AllConcluded
    /\ en = "expanded" =>
          /\ pm = "success"
          /\ Len(job) = Len(matrix)
          /\ \A k \in Jobs : job[k].notebooks = matrix[k]

\* generate_html builds after two jobs have concluded.
C6_Witness == gh = "build" /\ Len(job) >= 2 /\ AllConcluded

\* The commands the push loop of a job can still run.
Remaining(j) ==
    IF j.pc \in {"push", "sleep"} THEN 2 * MAX_RETRIES + 1 - j.attempts - j.sleeps ELSE 0

PushLoopInv(k) ==
    /\ job[k].attempts <= MAX_RETRIES
    /\ job[k].pc = "push" =>
          /\ job[k].i \in 1..MAX_RETRIES
          /\ job[k].attempts = job[k].i - 1 /\ job[k].sleeps = job[k].i - 1
          /\ ~job[k].pushed
    /\ job[k].pc = "sleep" =>
          /\ job[k].attempts = job[k].i /\ job[k].sleeps = job[k].i - 1
          /\ ~job[k].pushed
    /\ job[k].pushed => job[k].pc = "success" /\ job[k].sleeps = job[k].attempts - 1
    /\ (job[k].pc = "success" /\ ~job[k].pushed) =>
          job[k].attempts = MAX_RETRIES /\ job[k].sleeps = MAX_RETRIES

PushLoopStep(k) ==
    /\ job[k].pushed => job'[k].attempts = job[k].attempts
    /\ (job[k].pc \in {"push", "sleep"} /\ job'[k] # job[k]) =>
          /\ Remaining(job'[k]) < Remaining(job[k])
          /\ job'[k].pc \in {"push", "sleep", "success"}
    /\ (job[k].pc = "push" /\ job'[k].pc = "sleep") => job'[k].attempts = job[k].attempts + 1
    /\ (job[k].pc = "sleep" /\ job'[k] # job[k]) => job'[k].sleeps = job[k].sleeps + 1

\* C7: the push loop makes at most 5 push attempts, sleeps once after each
\* failed attempt, makes no attempt after a successful one, and every step
\* of it brings it nearer its end, whatever the pushes' outcomes.
C7_PushLoopBounded ==
    /\ [](\A k \in Jobs : PushLoopInv(k))
    /\ [][en = "expanded" => \A k \in Jobs : PushLoopStep(k)]_vars

\* A job pushed at its third attempt, and another gave up after five.
C7_Witness ==
    /\ \E k \in Jobs : job[k].pushed /\ job[k].attempts = 3 /\ job[k].sleeps = 2
    /\ \E k \in Jobs : PushesExhausted(k) /\ job[k].pc = "success"

\* The place of an item in the order the convention gives.
Rank(item) ==
    CASE item = "pre-install.sh" -> 1
      [] item = "pre-requirements.sh" -> 2
      [] item = "pre-requirements.txt" -> 3
      [] item = "requirements.txt" -> 4

AppliedSet == {applied[n] : n \in 1..Len(applied)}

\* C8: the items are applied in one order: the pre-install script before
\* the pre-requirements manifest before the requirements manifest.
C8_FixedOrder ==
    \A a, b \in 1..Len(applied) : a < b => Rank(applied[a]) < Rank(applied[b])

\* The script and both manifests have been applied.
C8_Witness ==
    /\ InstallDone
    /\ applied = <<"pre-install.sh", "pre-requirements.txt", "requirements.txt">>

ConventionItems == {"pre-install.sh", "pre-requirements.txt", "requirements.txt"}

\* C9: each of pre-install.sh, the pre-requirements manifest and the
\* requirements manifest is applied when it is present, and is skipped
\* without failing the step when it is absent.
C9_PresentAppliedAbsentSkipped ==
    /\ InstallDone => \A it \in ConventionItems : it \in dirFiles => it \in AppliedSet
    /\ \A it \in ConventionItems : it \notin dirFiles => it \notin AppliedSet

\* C10: for a pull request closed without being merged, none of
\* prepare_matrix, execute-notebooks and generate_html runs, and gh-storage
\* and the published site stay as they are.
C10_UnmergedDoesNothing ==
    /\ [](~merged =>
            /\ pm \in {"waiting", "skipped"} /\ matrix = <<>>
            /\ en \in {"waiting", "skipped"} /\ job = <<>>
            /\ gh \in {"waiting", "skipped"})
    /\ [][~merged => storage' = storage /\ site' = site]_vars

\* The run of a pull request closed unmerged has skipped all three jobs.
C10_Witness ==
    ~merged /\ run = "running" /\ pm = "skipped" /\ en = "skipped" /\ gh = "skipped"


(***************************************************************************)
(* The site build and the publish step                                     *)
(***************************************************************************)
\* What the hosted site can hold before the run: the executed notebooks of
\* the merge base or of the head.
HostedBefore ==
    {[p \in Notebooks |-> Executed(mbTree[p])],
     [p \in Notebooks |-> Executed(headTree[p])]}

\* C13: when the Build HTML step fails, the publish step does not run: the
\* hosted site changes in no step that ends or starts in the failed state, and
\* in the failed state it is a site hosted before the run, never the partial
\* build directory.
C13_FailedBuildKeepsSite ==
    /\ [](gh = "failure" => site \in HostedBefore)
    /\ [][(gh = "failure" \/ gh' = "failure") => site' = site]_vars
    /\ [][gh = "failure" => gh' = "failure"]_vars

\* C13 witness: the build failed with new content on gh-storage and a build
\* directory that is not the hosted site.
C13_Witness ==
    gh = "failure" /\ storage # site /\ built # site


(***************************************************************************)
(* The jobs of the matrix                                                  *)
(***************************************************************************)
\* The steps of job k.
JobStep(k) ==
    \/ StartJob(k) \/ Install(k) \/ InstallFails(k)
    \/ ExecuteOk(k) \/ ExecuteRaises(k)
    \/ Commit(k) \/ CommitFails(k)
    \/ Transplant(k) \/ TransplantFails(k)
    \/ CommitStorage(k) \/ CommitStorageFails(k)
    \/ PushOk(k) \/ PushFails(k) \/ Sleep(k)

\* C15: the jobs of one run are independent.  The step that fails a job
\* changes no other job and not gh-storage; a failed job has run no push; and
\* a job that has not concluded can always take its next step, whatever the
\* other jobs have concluded.
C15_JobsIndependent ==
    /\ [][\A k \in Jobs :
            (job[k].pc # "failure" /\ job'[k].pc = "failure")
                => /\ \A j \in Jobs \ {k} : job'[j] = job[j]
                   /\ storage' = storage]_vars
    /\ [](\A k \in Jobs : job[k].pc = "failure"
                              => job[k].attempts = 0 /\ ~job[k].pushed)
    /\ [](\A k \in Jobs : ~Concluded(k) => ENABLED JobStep(k))

\* C15 witness: one job failed, and another one, which executed after that,
\* pushed its notebook, which is on gh-storage.
C15_Witness ==
    \E k, j \in Jobs :
        /\ job[k].pc = "failure"
        /\ job[j].pc = "success" /\ job[j].pushed /\ job[j].executions = 1
        /\ storage[PathOf(j)] = job[j].committed
        /\ storage[PathOf(j)] # job[j].tip[PathOf(j)]


\* Job k has made its local gh-storage tree (the transplant step is done).
Transplanted(k) ==
    \/ job[k].pc \in {"commit_storage", "push", "sleep"}
    \/ job[k].i >= 1
    \/ job[k].failedAt = "commit_storage"

\* C17: the commit a job makes on gh-storage changes the path of the job's
\* notebook only: every other path has in the job's tree, and on gh-storage
\* right after the job's push, the content of the tip the job checked out.
C17_CommitChangesOwnPathOnly ==
    /\ [](\A k \in Jobs : Transplanted(k) =>
              /\ job[k].local[PathOf(k)] = job[k].committed
              /\ \A p \in Notebooks \ {PathOf(k)} : job[k].local[p] = job[k].tip[p])
    /\ [][\A k \in Jobs : (job'[k].attempts # job[k].attempts /\ job'[k].pushed) =>
              \A p \in Notebooks \ {PathOf(k)} : storage'[p] = job[k].tip[p]]_vars

\* C17 witness: a job pushed a commit made on a tip that held another job's
\* pushed notebook, and gh-storage holds both.
C17_Witness ==
    \E k, j \in Jobs :
        /\ k # j /\ job[k].pushed /\ job[j].pushed
        /\ job[k].tip[PathOf(j)] = job[j].committed
        /\ job[k].tip[PathOf(k)] # job[k].committed
        /\ storage = job[k].local


C20_ExecutedAtMostOnce ==
    /\ [](\A k \in Jobs :
              /\ job[k].executions <= 1
              /\ job[k].pc \in {"queued", "install"} => job[k].executions = 0
              /\ (job[k].pc \notin {"queued", "install", "execute", "failure"}
                   \/ job[k].raised) => job[k].executions = 1)
    /\ [](\A k, j \in Jobs : job[k].notebooks = job[j].notebooks => k = j)
    /\ [][\A k \in Jobs : job[k].pc # "execute" => job'[k].executions = job[k].executions]_vars

\* C20 witness: a job whose execution raised and whose push failed and was
\* run again has executed its notebook once.
C20_Witness ==
    \E k \in Jobs :
        job[k].raised /\ job[k].attempts >= 2 /\ job[k].pushed /\ job[k].executions = 1


(***************************************************************************)
(* The end of a run                                                        *)
(***************************************************************************)
\* A run started by a merged pull request.
RunStarted == run = "running" /\ merged = TRUE

\* The last job of the run has concluded or was skipped.
RunEnded == gh \in {"success", "failure", "skipped"}

\* The terminal states of a run.
RunPublished == gh = "success"
RunFailed ==
    \/ pm = "failure"
    \/ \E k \in Jobs : job[k].pc = "failure"
    \/ gh = "failure"
RunNoOp ==
    /\ pm = "success" /\ Len(matrix) = 0
    /\ gh = "skipped"

\* C16: every run started by a merged pull request ends, and ends in exactly
\* one of no-op, published and failed.  When prepare_matrix has failed no
\* matrix job exists and generate_html never starts; when the site build has
\* failed nothing changes any more: no job steps and the site is not published.
C16_RunEndsInOneTerminalState ==
    /\ RunStarted ~> RunEnded
    /\ []((RunStarted /\ RunEnded) =>
            /\ RunNoOp \/ RunPublished \/ RunFailed
            /\ ~(RunNoOp /\ RunPublished) /\ ~(RunNoOp /\ RunFailed)
            /\ ~(RunPublished /\ RunFailed)
            /\ \A k \in Jobs : Concluded(k))
    /\ [](pm = "failure" => job = <<>> /\ en # "expanded" /\ gh \in {"waiting", "skipped"})
    /\ [][pm = "failure" => UNCHANGED <<job, storage, built, site>>]_vars
    /\ [][gh = "failure" => UNCHANGED <<job, storage, site, gh>>]_vars

\* C16 witness: a run that ended failed at the site build, after a job had
\* pushed.
C16_Witness ==
    /\ RunStarted /\ RunEnded /\ RunFailed
    /\ gh = "failure" /\ \E k \in Jobs : job[k].pushed


(***************************************************************************)
(* gh-storage under two runs                                               *)
(***************************************************************************)
\* The file job k's one execution of its notebook produced.
ProducedBy(k) ==
    IF job[k].raised THEN InsertFailureMessage(CheckedOut(k))
    ELSE NbconvertExecute(CheckedOut(k))

\* C14: every notebook on gh-storage is the one that was there before the
\* runs, or is, whole, the file that one job which pushed produced in its one
\* execution of that notebook (the executed notebook, or the marked one):
\* never a file put together from two executions.
C14_StoredIsOneExecution ==
    \A p \in Notebooks :
        \/ storage[p] = Executed(mbTree[p])
        \/ \E k \in Jobs :
              /\ NamesFile(k) /\ PathOf(k) = p
              /\ job[k].pushed /\ job[k].executions = 1
              /\ job[k].committed = job[k].file
              /\ job[k].file = ProducedBy(k)
              /\ storage[p] = job[k].file

\* C14 witness: the two runs both pushed the first notebook, one marked and
\* one executed, and gh-storage holds one of the two.
C14_Witness ==
    \E k, j \in Jobs :
        /\ ~SameRun(k, j) /\ job[k].notebooks = job[j].notebooks
        /\ job[k].pushed /\ job[j].pushed
        /\ job[k].raised /\ ~job[j].raised
        /\ storage[PathOf(k)] = job[k].file
        /\ storage[PathOf(k)] # job[j].file

\* C18: once two jobs of two runs that publish the same path have both
\* pushed, gh-storage holds for that path the content of one of the two
\* pushes (that of the push that completed last), not any older content.
C18_LastPushIsKept ==
    \A k, j \in Jobs :
        (~SameRun(k, j) /\ job[k].notebooks = job[j].notebooks
            /\ job[k].pushed /\ job[j].pushed)
        => storage[PathOf(k)] \in {job[k].committed, job[j].committed}

(***************************************************************************)
(* The limits of the accessibility check                                   *)
(***************************************************************************)
\* The dispatcher gave input i: it entered a text that is not empty.
Given(i) ==
    evt = "workflow_dispatch" /\ supplied[i] # Null /\ supplied[i].s # <<>>

\* C12: each limit handed to the accessibility check is the text entered on
\* the manual trigger when one was entered, and 0 on a scheduled run or for an
\* input left out or left empty; an entered -1 is handed over as -1.
C12_LimitsAreInputsOrZero ==
    a11y \in {"called", "success", "failure"} =>
        \A i \in InputNames :
            /\ Given(i) => passed[i] = supplied[i].s
            /\ ~Given(i) => passed[i] = <<"0">> /\ StrToInt(passed[i]) = 0
            /\ (Given(i) /\ supplied[i].s = <<"-", "1">>) => StrToInt(passed[i]) = -1

\* C12 witness: a manual run with -1 entered for the error limit and the
\* warning limit left out hands over -1 and 0.
C12_Witness ==
    /\ a11y = "called" /\ evt = "workflow_dispatch"
    /\ supplied["total_error_limit"] = Str(<<"-", "1">>)
    /\ supplied["total_warning_limit"] = Null
    /\ StrToInt(passed["total_error_limit"]) = -1
    /\ StrToInt(passed["total_warning_limit"]) = 0


C25_StorageCompleteAtBuild ==
    /\ gh = "build" => \A k \in Jobs : storage[PathOf(k)] = job[k].committed
    /\ gh \in {"publish", "success"} => \A k \in Jobs : built[PathOf(k)] = job[k].committed

\* The steps of a job that can fail it.
FailingSteps == {"install", "commit", "transplant", "commit_storage"}

\* C26: generate_html has started only if prepare_matrix and every matrix
\* job concluded success.  A job fails only at a step other than the guarded
\* execution, and when one has failed generate_html does not start and the
\* site stays the one hosted before, whatever the other jobs have pushed.
C26_SiteBuiltOnlyIfAllSucceeded ==
    /\ gh \in {"build", "publish", "success", "failure"} =>
          /\ pm = "success" /\ en = "expanded"
          /\ \A k \in Jobs : job[k].pc = "success"
    /\ \A k \in Jobs : job[k].pc = "failure" => job[k].failedAt \in FailingSteps
    /\ (\E k \in Jobs : job[k].pc = "failure") =>
          /\ gh \in {"waiting", "skipped"}
          /\ built = site /\ site \in HostedBefore

\* C26 witness: a job failed, another one pushed its notebook, generate_html
\* was skipped and the site does not show the pushed notebook.
C26_Witness ==
    \E k, j \in Jobs :
        /\ job[k].pc = "failure"
        /\ job[j].pushed /\ storage[PathOf(j)] = job[j].committed
        /\ gh = "skipped"
        /\ site[PathOf(j)] # storage[PathOf(j)]

\* C27: a job runs git push only after git commit made a commit on
\* gh-storage.  With the transplanted notebook equal to the one of the
\* checked-out tip the step fails at git commit: the loop is not entered and
\* the job runs no push, so it leaves gh-storage as it is.
C27_NothingToCommitNoPush ==
    \A k \in Jobs :
        /\ job[k].failedAt = "commit_storage" =>
              /\ job[k].local = job[k].tip
              /\ job[k].i = 0 /\ job[k].attempts = 0 /\ ~job[k].pushed
        /\ (job[k].pc \in {"push", "sleep"} \/ job[k].attempts >= 1) =>
              job[k].local # job[k].tip
        /\ (job[k].pc = "commit_storage" /\ job[k].local = job[k].tip) =>
              ~ENABLED CommitStorage(k)

\* C27 witness: a job executed its notebook, found it equal to the one of
\* gh-storage and failed at git commit.
C27_Witness ==
    \E k \in Jobs :
        /\ job[k].failedAt = "commit_storage" /\ job[k].executions = 1
        /\ job[k].committed = storage[PathOf(k)]


C23_FlagAddedWhereModelAbove ==
    cell.pc = "closed" =>
        \A f \in Frames, x \in Pixels :
            /\ cell.per[f][x] > PersistThreshold =>
                  /\ cell.disk[f][x] = Wrap16(cell.orig[f][x] + cell.runs * DqFlag)
                  /\ cell.runs = 1 => cell.disk[f][x] = cell.orig[f][x] + DqFlag
            /\ cell.per[f][x] <= PersistThreshold => cell.disk[f][x] = cell.orig[f][x]

\* C23 witness: the cell has run once; a frame has a pixel that got the
\* flag added to a DQ value with other flags and a pixel, at the threshold,
\* that kept its value.
C23_Witness ==
    /\ cell.pc = "closed" /\ cell.runs = 1
    /\ \E f \in Frames, x, y \in Pixels :
          /\ cell.orig[f][x] = 512 /\ cell.disk[f][x] = 512 + DqFlag
          /\ cell.per[f][y] = PersistThreshold /\ cell.disk[f][y] = cell.orig[f][y]

\* The 16 bits of a DQ value, as a number in 0..2^16-1, and bit 16384 of it.
Bits16(v) == v % 2^16
HasFlag(v) == (Bits16(v) \div DqFlag) % 2 = 1

\* C29: after the cell, run once or again, every pixel above the threshold
\* has the 16384 bit set, its other bits as they were, and a value in the
\* signed 16-bit range.
C29_FlagBitSetOthersKept ==
    cell.pc = "closed" /\ cell.runs >= 1 =>
        \A f \in Frames, x \in Pixels :
            cell.per[f][x] > PersistThreshold =>
                /\ HasFlag(cell.disk[f][x])
                /\ Bits16(cell.disk[f][x]) - DqFlag = Bits16(cell.orig[f][x]) % DqFlag
                /\ cell.disk[f][x] >= -(2^15) /\ cell.disk[f][x] < 2^15


(***************************************************************************)
(* Ephemeris notebook: the jitter file                                     *)
(***************************************************************************)
\* C24: when the jitter cell ends, jit_data is defined: read from the jit
\* file with the exposure's rootname when the first download succeeded, and
\* from the association's jit file otherwise.
C24_JitDataDefinedAtEnd ==
    cell.pc \in {"end", "raised"} =>
        /\ cell.jit_data # "undefined"
        /\ cell.first = 200 => cell.jit_data = "rootname_jit"
        /\ cell.first # 200 => cell.jit_data = "asn_jit"


(***************************************************************************)
(* Ephemeris notebook: the Earth limb angle summary                        *)
(***************************************************************************)
\* C30: with an empty ELA array the cell prints 'ELA array is empty' from
\* the except clause and still ends with an uncaught ValueError, raised by
\* the statistics after the try, with ela_min, ela_max and ela_mean never
\* assigned; the cell ends normally only on a non-empty array.
C30_EmptyElaStillRaises ==
    /\ cell.pc \in {"end", "raised"} /\ cell.ela_arr = <<>> =>
          /\ cell.pc = "raised" /\ cell.raised = "ValueError"
          /\ cell.printed = <<"ELA array is empty">>
          /\ DOMAIN cell.env \cap {"ela_min", "ela_max", "ela_mean"} = {}
    /\ cell.pc = "stats" /\ cell.ela_arr = <<>> =>
          cell.printed = <<"ELA array is empty">> /\ cell.raised = "none"

\* C30 witness: the cell has ended on an empty ELA array.
C30_Witness ==
    cell.pc = "raised" /\ cell.ela_arr = <<>> /\ cell.printed = <<"ELA array is empty">>


(***************************************************************************)
(* COS notebook: the Gaussian kernel                                       *)
(***************************************************************************)
\* C28: the kernel get_gaussian returns has odd length, int(8*sigma) when
\* that is odd and one more when it is even (1 when it is 0); the element at
\* index int(length/2), the middle one, is 1 and no element is greater.
C28_KernelOddPeakAtMiddle ==
    cell.pc = "returned" =>
        LET n == Len(cell.gauss)
            l == IntOf8Sigma(cell.sigma)
            mid == n \div 2
        IN  /\ n % 2 = 1
            /\ n = IF l % 2 = 0 THEN l + 1 ELSE l
            /\ l = 0 => n = 1
            /\ mid = (n - 1) - mid
            /\ IsOne(cell.gauss[mid + 1])
            /\ \A i \in 1..n : ValueAtMost(cell.gauss[i], cell.gauss[mid + 1])

\* C28 witness: a kernel returned for a sigma with int(8*sigma) even and not
\* zero, so that the length was raised by one and the kernel has elements on
\* both sides of the middle.
C28_Witness ==
    /\ cell.pc = "returned"
    /\ IntOf8Sigma(cell.sigma) % 2 = 0 /\ IntOf8Sigma(cell.sigma) > 0
    /\ Len(cell.gauss) = IntOf8Sigma(cell.sigma) + 1

====
